---- MODULE Spec2Model ----
(***************************************************************************)
(* Model of co2_emissions_dashboard.py: the CO2EmissionsAnalyzer pipeline  *)
(* (load_and_clean_data, identify_hotspots, prepare_tableau_data,          *)
(* generate_visualizations) as driven by main().                           *)
(*                                                                         *)
(* Floating-point columns are modelled by exact rationals; a cell of a     *)
(* data frame is a number, NaN, or (before coercion) a non-numeric string. *)
(***************************************************************************)
EXTENDS Integers, Sequences, FiniteSets, TLC

VARIABLES
    sources,        \* the three CSV files of DATA_SOURCES, as tables of raw rows
    dirExists,      \* whether the directory "visualization" exists on disk
    pc,             \* position of main(): "load", "detect", "export", "render", "done"
    dfs,            \* the local list dfs of load_and_clean_data
    db,             \* the table 'global_emissions' of the SQLite store
    combined_data,  \* self.combined_data
    hotspots,       \* self.hotspots
    export,         \* the file TABLEAU_DATA_EXPORT
    charts,         \* the artifacts written by generate_visualizations
    ret,            \* return value of each stage: "unset", "True", "False"
    exc             \* the exception each stage caught, "none" if none

vars == <<sources, dirExists, pc, dfs, db, combined_data, hotspots, export, charts, ret, exc>>

(***************************************************************************)
(* Program constants.                                                      *)
(***************************************************************************)
NumSources == 3
MegatonLimit == 1000
MegatonFactor == 1000000
KilotonLimit == 1000000
KilotonFactor == 1000
MinYear == 1970
RollingWindow == 5
MinPeriods == 3
DefaultStartYear == 2015
MinObservations == 5
TopN == 3

(***************************************************************************)
(* Bounds of the input family.                                             *)
(***************************************************************************)
LastYear == 2019
MaxGrowth == 2

(***************************************************************************)
(* Cells.                                                                  *)
(***************************************************************************)
NaN == [t |-> "nan"]
Str == [t |-> "str"]
IsNum(c) == c.t = "num"
NaNStr == "NaN"

Abs(x) == IF x < 0 THEN -x ELSE x

RECURSIVE GCD(_, _)
GCD(a, b) == IF b = 0 THEN a ELSE GCD(b, a % b)

LCM(a, b) == (a \div GCD(a, b)) * b

\* the rational n/d (d > 0) in lowest terms
Rat(n, d) ==
    LET g == GCD(Abs(n), d)
    IN  [t |-> "num", n |-> n \div g, d |-> d \div g]

Num(n) == [t |-> "num", n |-> n, d |-> 1]

RAdd(a, b) ==
    LET l == LCM(a.d, b.d)
    IN  Rat(a.n * (l \div a.d) + b.n * (l \div b.d), l)

RMulInt(a, k) ==
    LET g == GCD(Abs(k), a.d)
    IN  Rat(a.n * (k \div g), a.d \div g)

RDivInt(a, k) ==
    LET g == GCD(Abs(a.n), k)
    IN  Rat(a.n \div g, a.d * (k \div g))

\* a < b, cross-multiplied after removing the common factors
RLess(a, b) ==
    LET gn == GCD(Abs(a.n), Abs(b.n))
        gd == GCD(a.d, b.d)
    IN  IF gn = 0 THEN FALSE
        ELSE (a.n \div gn) * (b.d \div gd) < (b.n \div gn) * (a.d \div gd)

Range(s) == {s[k] : k \in DOMAIN s}

RECURSIVE Concat(_)
Concat(ss) == IF ss = <<>> THEN <<>> ELSE Head(ss) \o Concat(Tail(ss))

(***************************************************************************)
(* DATA_SOURCES and the source files.                                      *)
(***************************************************************************)
SourceNames == <<"edgar", "global_carbon", "bp_stats">>

Countries == <<"A", "B">>
CountryCode == [c \in Range(Countries) |-> c \o c]
CountryRank(c) == CHOOSE k \in DOMAIN Countries : Countries[k] = c
CodeRank(cc) == CHOOSE k \in DOMAIN Countries : CountryCode[Countries[k]] = cc

\* native unit of a source: megatons, kilotons or tons
Scales == {1, KilotonFactor, MegatonFactor}
\* first year of a country's series, relative to the default cutoff and the last year
FirstYears == {DefaultStartYear - 4, DefaultStartYear - 2, DefaultStartYear,
               LastYear - 2, LastYear - 1}
Growths == 0 .. MaxGrowth
DefectKinds == {"na_value", "string", "null_country", "na_code", "old_year"}
\* a defect sits in one source, or in every source
Defects == {[kind |-> "none", srcs |-> {}]}
           \cup [kind : DefectKinds,
                 srcs : {{s} : s \in 1 .. NumSources} \cup {1 .. NumSources}]
\* the sources report in tons, kilotons and megatons
MixedUnits == [s \in 1 .. NumSources |->
                 IF s = 1 THEN 1 ELSE IF s = 2 THEN KilotonFactor ELSE MegatonFactor]

\* emissions of country c in year y as source s reports them, in megatons
Level(p, s, c, y) == 1 + p.growth[c] * (y - p.first[c]) + (s - 1)

RawRow(p, s, c, y) ==
    LET l == Level(p, s, c, y)
        hit == s \in p.defect.srcs /\ c = Countries[1] /\ y = LastYear - 1
        k == IF hit THEN p.defect.kind ELSE "none"
    IN  [country |-> IF k = "null_country" THEN NaNStr ELSE c,
         year |-> IF k = "old_year" THEN MinYear - 1 ELSE y,
         co2 |-> IF k = "na_value" THEN NaN
                 ELSE IF k = "string" THEN Str
                 ELSE Num((l * MegatonFactor) \div p.scale[s]),
         co2_per_capita |-> Num(l),
         iso_code |-> IF k = "na_code" THEN NaNStr ELSE CountryCode[c]]

CountryRows(p, s, c) ==
    [k \in 1 .. (LastYear - p.first[c] + 1) |-> RawRow(p, s, c, p.first[c] + k - 1)]

SourceTable(p, s) ==
    Concat([k \in DOMAIN Countries |-> CountryRows(p, s, Countries[k])])

\* The first country's series starts at any of FirstYears; the others have a full
\* history (every window of the analysis period is complete).  A defect is put
\* into the mixed-unit files; defect-free files come in every combination of units.
Params ==
    {p \in [scale : [1 .. NumSources -> Scales],
            first : [Range(Countries) -> FirstYears],
            growth : [Range(Countries) -> Growths],
            defect : Defects] :
        /\ \A k \in DOMAIN Countries :
              k > 1 => p.first[Countries[k]] = DefaultStartYear - RollingWindow + 1
        /\ p.defect.kind # "none" => p.scale = MixedUnits}

(***************************************************************************)
(* _standardize_format                                                     *)
(***************************************************************************)
\* column_map and df.rename, with the 'source' tag added by the caller
Rename(row, name) ==
    [country |-> row.country,
     year |-> row.year,
     co2_emissions |-> row.co2,
     co2_per_capita |-> row.co2_per_capita,
     country_code |-> row.iso_code,
     source |-> name]

\* Series.max(): NaN is skipped; the result is NaN when nothing is left
ColumnMax(df) ==
    LET vals == {df[k].co2_emissions.n : k \in {j \in DOMAIN df : IsNum(df[j].co2_emissions)}}
    IN  IF vals = {} THEN NaN
        ELSE Num(CHOOSE v \in vals : \A w \in vals : w <= v)

ScaleColumn(df, factor) ==
    [k \in DOMAIN df |->
        [df[k] EXCEPT !.co2_emissions =
            IF IsNum(@) THEN RMulInt(@, factor) ELSE @]]

\* a column read from CSV that holds a non-numeric token is a column of strings;
\* its max() is a string and comparing it with 1e3 raises TypeError
StandardizeRaises(df) ==
    \E k \in DOMAIN df : df[k].co2_emissions.t = "str"

\* the thresholds taken inclusively
StandardizeFormat_Inclusive(df) ==
    LET m == ColumnMax(df)
    IN  IF IsNum(m) /\ m.n <= MegatonLimit THEN ScaleColumn(df, MegatonFactor)
        ELSE IF IsNum(m) /\ m.n <= KilotonLimit THEN ScaleColumn(df, KilotonFactor)
        ELSE df

StandardizeFormat(df) ==
    LET m == ColumnMax(df)
    IN  IF IsNum(m) /\ m.n < MegatonLimit THEN ScaleColumn(df, MegatonFactor)
        ELSE IF IsNum(m) /\ m.n < KilotonLimit THEN ScaleColumn(df, KilotonFactor)
        ELSE df

(***************************************************************************)
(* _clean_combined_data                                                    *)
(***************************************************************************)
\* pd.to_numeric(errors='coerce')
ToNumeric(c) == IF IsNum(c) THEN c ELSE NaN

RECURSIVE SumCells(_)
SumCells(cs) == IF cs = <<>> THEN Num(0) ELSE RAdd(Head(cs), SumCells(Tail(cs)))

\* mean with NaN skipped; NaN when every value is NaN
Mean(cs) ==
    LET nums == SelectSeq(cs, IsNum)
    IN  IF nums = <<>> THEN NaN ELSE RDivInt(SumCells(nums), Len(nums))

KeyOf(r) == <<r.country, r.year, r.country_code>>

KeyLess(a, b) ==
    \/ CountryRank(a[1]) < CountryRank(b[1])
    \/ /\ a[1] = b[1]
       /\ \/ a[2] < b[2]
          \/ a[2] = b[2] /\ CodeRank(a[3]) < CodeRank(b[3])

RECURSIVE SortKeys(_)
SortKeys(ks) ==
    IF ks = {} THEN <<>>
    ELSE LET m == CHOOSE k \in ks : \A o \in ks \ {k} : KeyLess(k, o)
         IN  <<m>> \o SortKeys(ks \ {m})

\* groupby(['country','year','country_code'], as_index=False).agg(mean):
\* rows whose key holds NaN are dropped (dropna=True), groups come out sorted by key
GroupByMean(df) ==
    LET keyed == SelectSeq(df, LAMBDA r : r.country_code # NaNStr)
        keys == SortKeys({KeyOf(keyed[k]) : k \in DOMAIN keyed})
        Col(key, f(_)) ==
            LET rows == SelectSeq(keyed, LAMBDA r : KeyOf(r) = key)
            IN  [k \in DOMAIN rows |-> f(rows[k])]
    IN  [k \in DOMAIN keys |->
            [country |-> keys[k][1],
             year |-> keys[k][2],
             country_code |-> keys[k][3],
             co2_emissions |-> Mean(Col(keys[k], LAMBDA r : r.co2_emissions)),
             co2_per_capita |-> Mean(Col(keys[k], LAMBDA r : r.co2_per_capita))]]

\* min_periods counted on the rows of the window instead of its non-missing values
RollingMean_CountRows(xs, k) ==
    LET lo == IF k - RollingWindow + 1 < 1 THEN 1 ELSE k - RollingWindow + 1
        win == SubSeq(xs, lo, k)
        nums == SelectSeq(win, IsNum)
    IN  IF Len(win) >= MinPeriods /\ nums # <<>>
        THEN RDivInt(SumCells(nums), Len(nums)) ELSE NaN

\* x.rolling(5, min_periods=3).mean(), at position k of the series xs
RollingMean(xs, k) ==
    LET lo == IF k - RollingWindow + 1 < 1 THEN 1 ELSE k - RollingWindow + 1
        win == SubSeq(xs, lo, k)
        nums == SelectSeq(win, IsNum)
    IN  IF Len(nums) >= MinPeriods THEN RDivInt(SumCells(nums), Len(nums)) ELSE NaN

\* grouped.sort_values(['country', 'year']): rows equal on both keep their order
RECURSIVE InsertByCountryYear(_, _)
InsertByCountryYear(r, sorted) ==
    IF sorted = <<>> THEN <<r>>
    ELSE LET l == sorted[Len(sorted)]
             before == \/ CountryRank(r.country) < CountryRank(l.country)
                       \/ r.country = l.country /\ r.year < l.year
         IN  IF before
             THEN Append(InsertByCountryYear(r, SubSeq(sorted, 1, Len(sorted) - 1)), l)
             ELSE Append(sorted, r)

RECURSIVE SortValues(_)
SortValues(g) ==
    IF g = <<>> THEN <<>>
    ELSE InsertByCountryYear(g[Len(g)], SortValues(SubSeq(g, 1, Len(g) - 1)))

\* grouped.groupby('country')['co2_emissions'].transform(rolling mean)
AddMovingAverage(g) ==
    [k \in DOMAIN g |->
        LET mine == {j \in DOMAIN g : g[j].country = g[k].country}
            idx == SelectSeq([j \in DOMAIN g |-> j], LAMBDA j : j \in mine)
            xs == [j \in DOMAIN idx |-> g[idx[j]].co2_emissions]
            pos == Cardinality({j \in mine : j <= k})
        IN  [country |-> g[k].country,
             year |-> g[k].year,
             country_code |-> g[k].country_code,
             co2_emissions |-> g[k].co2_emissions,
             co2_per_capita |-> g[k].co2_per_capita,
             co2_ma_5yr |-> RollingMean(xs, pos)]]

CleanCombinedData(df) ==
    LET numeric == [k \in DOMAIN df |->
                        [df[k] EXCEPT !.co2_emissions = ToNumeric(@)]]
        named == SelectSeq(numeric, LAMBDA r : r.country # NaNStr)
        modern == SelectSeq(named, LAMBDA r : r.year >= MinYear)
    IN  AddMovingAverage(SortValues(GroupByMean(modern)))

(***************************************************************************)
(* Exact arithmetic on large naturals (little-endian base-10000 digits),   *)
(* for the products of sums of squares that the regression statistics      *)
(* compare.                                                                *)
(***************************************************************************)
RECURSIVE BigOf(_)
BigOf(n) == IF n = 0 THEN <<>> ELSE <<n % 10000>> \o BigOf(n \div 10000)

RECURSIVE BigAddC(_, _, _)
BigAddC(a, b, carry) ==
    IF a = <<>> /\ b = <<>> THEN BigOf(carry)
    ELSE LET x == IF a = <<>> THEN 0 ELSE Head(a)
             y == IF b = <<>> THEN 0 ELSE Head(b)
             v == x + y + carry
         IN  <<v % 10000>> \o BigAddC(IF a = <<>> THEN a ELSE Tail(a),
                                        IF b = <<>> THEN b ELSE Tail(b),
                                        v \div 10000)

BigAdd(a, b) == BigAddC(a, b, 0)

RECURSIVE BigMulC(_, _, _)
BigMulC(a, m, carry) ==
    IF a = <<>> THEN BigOf(carry)
    ELSE LET v == Head(a) * m + carry
         IN  <<v % 10000>> \o BigMulC(Tail(a), m, v \div 10000)

RECURSIVE BigTimes(_, _)
BigTimes(a, b) ==
    IF a = <<>> \/ b = <<>> THEN <<>>
    ELSE LET rest == BigTimes(a, Tail(b))
             low == IF Head(b) = 0 THEN <<>> ELSE BigMulC(a, Head(b), 0)
         IN  BigAdd(low, IF rest = <<>> THEN <<>> ELSE <<0>> \o rest)

RECURSIVE BigProduct(_)
BigProduct(ns) == IF ns = <<>> THEN BigOf(1) ELSE BigTimes(BigOf(Head(ns)), BigProduct(Tail(ns)))

RECURSIVE BigLess(_, _)
BigLess(a, b) ==
    IF Len(a) # Len(b) THEN Len(a) < Len(b)
    ELSE IF a = <<>> THEN FALSE
    ELSE LET k == Len(a)
         IN  IF a[k] # b[k] THEN a[k] < b[k]
             ELSE BigLess(SubSeq(a, 1, k - 1), SubSeq(b, 1, k - 1))

(***************************************************************************)
(* identify_hotspots                                                       *)
(***************************************************************************)
\* alpha = 0.05 = 1 / AlphaInverse
AlphaInverse == 20

RECURSIVE SumInts(_)
SumInts(xs) == IF xs = <<>> THEN 0 ELSE Head(xs) + SumInts(Tail(xs))

RECURSIVE GCDAll(_)
GCDAll(xs) == IF xs = <<>> THEN 0 ELSE GCD(Abs(Head(xs)), GCDAll(Tail(xs)))

RECURSIVE LCMAll(_)
LCMAll(xs) == IF xs = <<>> THEN 1 ELSE LCM(Head(xs), LCMAll(Tail(xs)))

\* The sums of the least-squares fit of ys (rationals) on xs (years).  The years are
\* taken relative to the first one and the ys as integer multiples of the unit
\* unitN / unitD, which changes none of the centred sums; each sum below is n times
\* the centred sum of squares or products.
FitSums(xs, ys) ==
    LET n == Len(xs)
        g == GCDAll([k \in DOMAIN ys |-> ys[k].n])
        unitN == IF g = 0 THEN 1 ELSE g
        unitD == LCMAll([k \in DOMAIN ys |-> ys[k].d])
        x == [k \in DOMAIN xs |-> xs[k] - xs[1]]
        y == [k \in DOMAIN ys |-> (ys[k].n \div unitN) * (unitD \div ys[k].d)]
        sx == SumInts(x)
        sy == SumInts(y)
    IN  [n |-> n,
         unitN |-> unitN,
         unitD |-> unitD,
         sxx |-> n * SumInts([k \in DOMAIN x |-> x[k] * x[k]]) - sx * sx,
         syy |-> n * SumInts([k \in DOMAIN y |-> y[k] * y[k]]) - sy * sy,
         sxy |-> n * SumInts([k \in DOMAIN x |-> x[k] * y[k]]) - sx * sy]

\* model.coef_[0]: the least-squares slope
Slope(f) == RMulInt(Rat(f.sxy, f.unitD * f.sxx), f.unitN)

\* element 4 of the linregress result, the standard error of the slope,
\* compared with 0.05:  stderr^2 = (sxx*syy - sxy^2) / (sxx^2 * (n-2)) * unit^2
StderrBelowAlpha(f) ==
    LET a2 == AlphaInverse * AlphaInverse
    IN  BigLess(BigProduct(<<a2, f.unitN, f.unitN, f.sxx, f.syy>>),
                BigAdd(BigProduct(<<f.n - 2, f.sxx, f.sxx, f.unitD, f.unitD>>),
                       BigProduct(<<a2, f.unitN, f.unitN, Abs(f.sxy), Abs(f.sxy)>>)))

\* `_, p_value = stats.linregress(...)[3:5]`: the slice is (pvalue, stderr), so the
\* name p_value is bound to the standard error
PValueVariableBelowAlpha(f) == StderrBelowAlpha(f)

Recent(data, start_year) == SelectSeq(data, LAMBDA r : r.year >= start_year)

\* recent['country'].unique(): in order of first appearance
RECURSIVE Unique(_)
Unique(cs) ==
    IF cs = <<>> THEN <<>>
    ELSE LET rest == Unique(SubSeq(cs, 1, Len(cs) - 1))
             c == cs[Len(cs)]
         IN  IF c \in Range(rest) THEN rest ELSE Append(rest, c)

CountryData(recent, c) == SelectSeq(recent, LAMBDA r : r.country = c)

Fitted(country_data) ==
    FitSums([k \in DOMAIN country_data |-> country_data[k].year],
            [k \in DOMAIN country_data |-> country_data[k].co2_ma_5yr])

\* LinearRegression.fit rejects a NaN in y (ValueError); linregress rejects
\* identical x values (ValueError)
FitRaises(country_data) ==
    \/ \E k \in DOMAIN country_data : ~IsNum(country_data[k].co2_ma_5yr)
    \/ \A k \in DOMAIN country_data : country_data[k].year = country_data[1].year

Skipped(country_data) == Len(country_data) < MinObservations

IsHotspot(country_data) ==
    LET f == Fitted(country_data)
    IN  Slope(f).n > 0 /\ PValueVariableBelowAlpha(f)

HotspotEntry(c, country_data) ==
    [country |-> c,
     growth_rate |-> Slope(Fitted(country_data)),
     recent_emissions |-> country_data[Len(country_data)].co2_ma_5yr]

\* the list built by the loop over countries
RECURSIVE HotspotList(_, _)
HotspotList(recent, cs) ==
    IF cs = <<>> THEN <<>>
    ELSE LET cd == CountryData(recent, Head(cs))
             rest == HotspotList(recent, Tail(cs))
         IN  IF ~Skipped(cd) /\ IsHotspot(cd)
             THEN <<HotspotEntry(Head(cs), cd)>> \o rest
             ELSE rest

\* sort_values('growth_rate', ascending=False): equal rates keep their order
RECURSIVE InsertDescending(_, _)
InsertDescending(e, sorted) ==
    IF sorted = <<>> THEN <<e>>
    ELSE IF RLess(Head(sorted).growth_rate, e.growth_rate)
         THEN <<e>> \o sorted
         ELSE <<Head(sorted)>> \o InsertDescending(e, Tail(sorted))

RECURSIVE SortDescending(_)
SortDescending(es) ==
    IF es = <<>> THEN <<>>
    ELSE InsertDescending(es[Len(es)], SortDescending(SubSeq(es, 1, Len(es) - 1)))

SortByGrowthRate(es) == SortDescending(es)

HeadN(es, n) == SubSeq(es, 1, IF Len(es) < n THEN Len(es) ELSE n)

\* the exception identify_hotspots catches, "none" if it runs through
DetectionError(data, start_year) ==
    LET recent == Recent(data, start_year)
        cs == Unique([k \in DOMAIN recent |-> recent[k].country])
    IN  IF \E k \in DOMAIN cs :
              LET cd == CountryData(recent, cs[k]) IN ~Skipped(cd) /\ FitRaises(cd)
        THEN "ValueError"
        \* pd.DataFrame([]) has no column 'growth_rate' to sort by
        ELSE IF HotspotList(recent, cs) = <<>> THEN "KeyError"
        ELSE "none"

TopHotspots(data, start_year) ==
    LET recent == Recent(data, start_year)
        cs == Unique([k \in DOMAIN recent |-> recent[k].country])
    IN  HeadN(SortByGrowthRate(HotspotList(recent, cs)), TopN)

(***************************************************************************)
(* State machine.                                                          *)
(***************************************************************************)
Unset == [set |-> FALSE, rows |-> <<>>]
Set(rows) == [set |-> TRUE, rows |-> rows]

\* main: `if not analyzer.load_and_clean_data(): return`, taken as not returning
MainAfterLoad_GoesOn(ok) == "detect"

\* main: `if not analyzer.load_and_clean_data(): return`
MainAfterLoad(ok) == IF ok THEN "detect" ELSE "done"

\* main: `if not analyzer.identify_hotspots(): return`
MainAfterDetect(ok) == IF ok THEN "export" ELSE "done"

Init ==
    /\ \E p \in Params :
          sources = [s \in 1 .. NumSources |-> SourceTable(p, s)]
    /\ dirExists \in BOOLEAN
    /\ pc = "load"
    /\ dfs = <<>>
    /\ db = Unset
    /\ combined_data = Unset
    /\ hotspots = Unset
    /\ export = Unset
    /\ charts = [trend |-> FALSE, map |-> FALSE]
    /\ ret = [load |-> "unset", detect |-> "unset", export |-> "unset", render |-> "unset"]
    /\ exc = [load |-> "none", detect |-> "none", export |-> "none", render |-> "none"]

\* load_and_clean_data, one pass of the loop over DATA_SOURCES
ReadSource ==
    /\ pc = "load"
    /\ Len(dfs) < NumSources
    /\ LET s == Len(dfs) + 1
           df == [k \in DOMAIN sources[s] |-> Rename(sources[s][k], SourceNames[s])]
       IN  \/ \* pd.read_csv raises (missing or unparseable file)
              /\ ret' = [ret EXCEPT !.load = "False"]
              /\ exc' = [exc EXCEPT !.load = "ReadError"]
              /\ pc' = MainAfterLoad(FALSE)
              /\ dfs' = dfs
           \/ /\ StandardizeRaises(df)
              /\ ret' = [ret EXCEPT !.load = "False"]
              /\ exc' = [exc EXCEPT !.load = "TypeError"]
              /\ pc' = MainAfterLoad(FALSE)
              /\ dfs' = dfs
           \/ /\ ~StandardizeRaises(df)
              /\ dfs' = Append(dfs, StandardizeFormat(df))
              /\ UNCHANGED <<ret, exc, pc>>
    /\ UNCHANGED <<sources, dirExists, db, combined_data, hotspots, export, charts>>

\* load_and_clean_data after the loop: concat, clean, to_sql, keep in memory
CleanAndStore ==
    /\ pc = "load"
    /\ Len(dfs) = NumSources
    /\ LET combined == CleanCombinedData(Concat(dfs))
       IN  /\ db' = Set(combined)
           /\ combined_data' = Set(combined)
    /\ ret' = [ret EXCEPT !.load = "True"]
    /\ pc' = MainAfterLoad(TRUE)
    /\ UNCHANGED <<sources, dirExists, dfs, hotspots, export, charts, exc>>

\* identify_hotspots(), and main's return when it reports failure
IdentifyHotspots ==
    /\ pc = "detect"
    /\ LET e == DetectionError(combined_data.rows, DefaultStartYear)
       IN  IF e # "none"
           THEN /\ ret' = [ret EXCEPT !.detect = "False"]
                /\ exc' = [exc EXCEPT !.detect = e]
                /\ pc' = MainAfterDetect(FALSE)
                /\ hotspots' = hotspots
           ELSE /\ hotspots' = Set(TopHotspots(combined_data.rows, DefaultStartYear))
                /\ ret' = [ret EXCEPT !.detect = "True"]
                /\ exc' = exc
                /\ pc' = MainAfterDetect(TRUE)
    /\ UNCHANGED <<sources, dirExists, dfs, db, combined_data, export, charts>>

HotspotCountries == {hotspots.rows[k].country : k \in DOMAIN hotspots.rows}

\* tableau_data with the is_hotspot column
TableauData ==
    [k \in DOMAIN combined_data.rows |->
        [row |-> combined_data.rows[k],
         is_hotspot |-> IF hotspots.set
                        THEN combined_data.rows[k].country \in HotspotCountries
                        ELSE FALSE]]

\* prepare_tableau_data(); main goes on whatever it returns.  The stage can raise
\* before the directory is made (Path is bound only under __main__), in mkdir, or
\* in to_csv.
ExportFaults == {"none", "NameError", "mkdir", "to_csv"}

PrepareTableauData ==
    /\ pc = "export"
    /\ \E fault \in ExportFaults :
          /\ dirExists' = (dirExists \/ fault \in {"none", "to_csv"})
          /\ export' = IF fault = "none" THEN Set(TableauData) ELSE export
          /\ ret' = [ret EXCEPT !.export = IF fault = "none" THEN "True" ELSE "False"]
          /\ exc' = [exc EXCEPT !.export = fault]
    /\ pc' = "render"
    /\ UNCHANGED <<sources, dfs, db, combined_data, hotspots, charts>>

\* generate_visualizations(): savefig and write_html write into "visualization/"
\* and raise FileNotFoundError when it does not exist; the stage never makes it
RenderFaults == {"none", "savefig", "write_html"}

GenerateVisualizations ==
    /\ pc = "render"
    /\ \E fault \in RenderFaults :
          LET trendOk == hotspots.set /\ dirExists /\ fault # "savefig"
              trendRaises == hotspots.set /\ ~trendOk
              mapOk == ~trendRaises /\ dirExists /\ fault # "write_html"
          IN  /\ (fault = "savefig" => hotspots.set /\ dirExists)
              /\ (fault = "write_html" => ~trendRaises /\ dirExists)
              /\ charts' = [trend |-> trendOk, map |-> mapOk]
              /\ ret' = [ret EXCEPT !.render = IF mapOk THEN "True" ELSE "False"]
              /\ exc' = [exc EXCEPT !.render =
                            IF mapOk THEN "none"
                            ELSE IF ~dirExists THEN "FileNotFoundError"
                            ELSE fault]
    /\ pc' = "done"
    /\ UNCHANGED <<sources, dirExists, dfs, db, combined_data, hotspots, export>>

Next ==
    \/ ReadSource
    \/ CleanAndStore
    \/ IdentifyHotspots
    \/ PrepareTableauData
    \/ GenerateVisualizations

Spec == Init /\ [][Next]_vars

(***************************************************************************)
(* Properties.                                                             *)
(***************************************************************************)
AllRows(tables) == Concat(tables)
LoadOk == ret.load = "True"
Combined == combined_data.rows

\* the numeric raw co2 values of source s
RawValues(s) ==
    {sources[s][k].co2.n : k \in {j \in DOMAIN sources[s] : IsNum(sources[s][j].co2)}}

C1_Factor(s) ==
    IF RawValues(s) = {} THEN 1
    ELSE IF \A v \in RawValues(s) : v < 1000 THEN 1000000
    ELSE IF \A v \in RawValues(s) : v < 1000000 THEN 1000
    ELSE 1

\* C1: every standardized frame in dfs is its own source file with each co2 value
\* multiplied by 1e6 if that file's maximum is below 1e3, by 1e3 if it is below 1e6,
\* and unchanged otherwise; the factor is a function of that one file alone.
C1_RescalePerSource ==
    \A s \in DOMAIN dfs :
        /\ Len(dfs[s]) = Len(sources[s])
        /\ \A k \in DOMAIN dfs[s] :
              dfs[s][k].co2_emissions =
                 IF IsNum(sources[s][k].co2)
                 THEN Num(sources[s][k].co2.n * C1_Factor(s))
                 ELSE sources[s][k].co2

\* the three files were standardized with three different factors, one of them
\* with its maximum exactly on a threshold
C1_Witness ==
    /\ Len(dfs) = NumSources
    /\ {C1_Factor(s) : s \in 1 .. NumSources} = {1, 1000, 1000000}
    /\ \E s \in 1 .. NumSources : \A v \in RawValues(s) : v = 1000

\* C2: once load_and_clean_data has reported failure, the table is unwritten, the
\* combined dataset is unset and no later stage has run; a raise while reading or
\* standardizing is reported as failure.
C2_LoadFailureAbortsRun ==
    /\ exc.load # "none" => ret.load = "False"
    /\ ret.load = "False" =>
          /\ pc = "done"
          /\ ~db.set
          /\ ~combined_data.set
          /\ ~hotspots.set
          /\ ~export.set
          /\ charts = [trend |-> FALSE, map |-> FALSE]
          /\ ret.detect = "unset" /\ ret.export = "unset" /\ ret.render = "unset"

\* a read failed after earlier sources had been read and standardized
C2_Witness ==
    /\ ret.load = "False"
    /\ exc.load = "ReadError"
    /\ Len(dfs) = NumSources - 1

\* C3: after a failed detection, export and render still run and the export is
\* written with is_hotspot false on every row.
C3_DetectionFailureOnlyAbortsDetection ==
    (pc = "done" /\ LoadOk /\ ret.detect = "False") =>
        /\ ret.export # "unset"
        /\ ret.render # "unset"
        /\ ret.export = "True" =>
              /\ export.set
              /\ \A k \in DOMAIN export.rows : ~export.rows[k].is_hotspot

\* the (country, year) pairs of the source files with a country and year >= 1970
SourcePairs ==
    {<<r.country, r.year>> :
        r \in {x \in Range(AllRows(sources)) : x.country # NaNStr /\ x.year >= 1970}}

NormalizedValues(pair) ==
    LET rows == SelectSeq(AllRows(dfs),
                          LAMBDA r : r.country = pair[1] /\ r.year = pair[2])
    IN  [k \in DOMAIN rows |-> ToNumeric(rows[k].co2_emissions)]

\* C4: after a successful load, each (country, year) pair of the sources has exactly
\* one row in the Combined Dataset, with or without a country_code, and its
\* co2_emissions is the mean of the non-missing normalized values of that pair.
C4_OneRowPerCountryYear ==
    LoadOk =>
        \A pair \in SourcePairs :
            LET ks == {k \in DOMAIN Combined :
                          Combined[k].country = pair[1] /\ Combined[k].year = pair[2]}
            IN  /\ Cardinality(ks) = 1
                /\ \A k \in ks : Combined[k].co2_emissions = Mean(NormalizedValues(pair))

HasStringValue ==
    \E s \in DOMAIN sources : \E k \in DOMAIN sources[s] : sources[s][k].co2.t = "str"

\* C5: a non-numeric co2 string in a source never makes the load fail: unless a file
\* cannot be read, load_and_clean_data succeeds.
C5_StringValueIsCoerced ==
    (HasStringValue /\ pc # "load" /\ exc.load # "ReadError") => LoadOk

\* C6: after a failed export, render has run, it failed only for a cause of its own,
\* and the stored table and the combined dataset are as the load stage left them.
C6_ExportFailureIsLocal ==
    (pc = "done" /\ ret.export = "False") =>
        /\ ret.render # "unset"
        /\ ret.render = "False" => exc.render \in RenderFaults \ {"none"}
        /\ db = combined_data
        /\ combined_data.set

\* Two-sided p-value of the slope below 0.05: t^2 = (n-2) r^2 / (1 - r^2) above the
\* squared 0.975 quantile of Student's t with n-2 degrees of freedom (times 1000).
TCriticalSquared ==
    [df \in 3 .. 8 |->
        CASE df = 3 -> 10128 [] df = 4 -> 7709 [] df = 5 -> 6608
          [] df = 6 -> 5987 [] df = 7 -> 5591 [] df = 8 -> 5318]

TwoSidedPBelowAlpha(f) ==
    LET k == TCriticalSquared[f.n - 2]
    IN  BigLess(BigProduct(<<k, f.sxx, f.syy>>),
                BigProduct(<<1000 * (f.n - 2) + k, Abs(f.sxy), Abs(f.sxy)>>))

\* the countries that satisfy the inclusion rule as specified
Qualifying ==
    LET recent == Recent(Combined, DefaultStartYear)
    IN  {c \in Range(Countries) :
            LET cd == CountryData(recent, c)
            IN  /\ Len(cd) >= 5
                /\ \A k \in DOMAIN cd : IsNum(cd[k].co2_ma_5yr)
                /\ Slope(Fitted(cd)).n > 0
                /\ TwoSidedPBelowAlpha(Fitted(cd))}

QualifyingSlope(c) ==
    Slope(Fitted(CountryData(Recent(Combined, DefaultStartYear), c)))

\* C7: after a successful detection the list has at most 3 entries in descending
\* growth_rate order, and no country that satisfies the inclusion rule (positive
\* slope, p-value below 0.05, at least 5 observations) is left out while a listed
\* entry has a smaller growth_rate.
C7_TopThreeQualifying ==
    ret.detect = "True" =>
        /\ Len(hotspots.rows) <= 3
        /\ \A k \in 1 .. Len(hotspots.rows) - 1 :
              ~RLess(hotspots.rows[k].growth_rate, hotspots.rows[k + 1].growth_rate)
        /\ \A c \in Qualifying \ HotspotCountries :
              \A k \in DOMAIN hotspots.rows :
                  ~RLess(hotspots.rows[k].growth_rate, QualifyingSlope(c))

\* every country with at least 5 rows from the cutoff on has all of them smoothed
NoMissingSmoothedValue ==
    LET recent == Recent(Combined, DefaultStartYear)
    IN  \A c \in Range(Countries) :
            LET cd == CountryData(recent, c)
            IN  Len(cd) >= 5 => \A k \in DOMAIN cd : IsNum(cd[k].co2_ma_5yr)

\* C8: whatever the Combined Dataset, also when no country is left after the
\* skips and the inclusion rule, identify_hotspots succeeds with a possibly empty
\* list and main runs export and render.
C8_EmptyHotspotListIsSuccess ==
    (pc = "done" /\ LoadOk /\ NoMissingSmoothedValue) =>
        /\ ret.detect = "True"
        /\ hotspots.set
        /\ ret.export # "unset"
        /\ ret.render # "unset"

\* C9: rows from the cutoff on whose smoothed value is missing are left out of the
\* fit and do not make detection fail.
C9_MissingPairsAreLeftOut ==
    (LoadOk /\ ret.detect # "unset" /\ ~NoMissingSmoothedValue) =>
        exc.detect # "ValueError"

\* the row k and the up to 4 rows before it of the same country
C10_Window(k) ==
    {j \in 1 .. k :
        /\ Combined[j].country = Combined[k].country
        /\ Cardinality({i \in j + 1 .. k : Combined[i].country = Combined[k].country}) < 5}

RECURSIVE C10_Sum(_)
C10_Sum(js) ==
    IF js = {} THEN Num(0)
    ELSE LET j == CHOOSE x \in js : TRUE
         IN  RAdd(Combined[j].co2_emissions, C10_Sum(js \ {j}))

C10_RowsOf(c) == {k \in DOMAIN Combined : Combined[k].country = c}

\* C10: co2_ma_5yr of a row is defined exactly when at least 3 co2_emissions values
\* among the row and the up to 4 rows before it of the same country (in ascending
\* year order) are non-missing, and then it is their mean; with 2 rows a country has
\* no smoothed value, with 3 rows only the third can have one.
C10_SmoothingWindow ==
    combined_data.set =>
        /\ \A k \in DOMAIN Combined :
              LET nums == {j \in C10_Window(k) : IsNum(Combined[j].co2_emissions)}
              IN  /\ IsNum(Combined[k].co2_ma_5yr) <=> Cardinality(nums) >= 3
                  /\ IsNum(Combined[k].co2_ma_5yr) =>
                        RMulInt(Combined[k].co2_ma_5yr, Cardinality(nums)) = C10_Sum(nums)
                  /\ \A j \in C10_Window(k) : Combined[j].year <= Combined[k].year
        /\ \A c \in Range(Countries) :
              /\ Cardinality(C10_RowsOf(c)) = 2 =>
                    \A k \in C10_RowsOf(c) : ~IsNum(Combined[k].co2_ma_5yr)
              /\ Cardinality(C10_RowsOf(c)) = 3 =>
                    \A k \in C10_RowsOf(c) :
                        IsNum(Combined[k].co2_ma_5yr) => k + 1 \notin C10_RowsOf(c)

\* a smoothed value computed over a window that holds a missing co2_emissions
C10_Witness ==
    /\ combined_data.set
    /\ \E k \in DOMAIN Combined :
          /\ IsNum(Combined[k].co2_ma_5yr)
          /\ \E j \in C10_Window(k) : ~IsNum(Combined[j].co2_emissions)
====
